---- MODULE Spec2Model ----
(***************************************************************************)
(* Model of the session / translation-cache core of the Gaming Voice Chat  *)
(* Translator: core/session_manager.py (VoiceMessage, SessionManager) and  *)
(* core/translator.py (GoogleTranslator, CachedTranslator).                *)
(***************************************************************************)
EXTENDS Integers, Sequences, FiniteSets, TLC

----------------------------------------------------------------------------
(* Bounds of the model *)

\* longest message log explored
MaxMsgs == 2
\* last clock tick explored (the clock starts at tick 0)
MaxTick == 2
\* clock ticks per second: datetime has sub-second resolution, strftime has not
TicksPerSec == 2
\* largest total_messages counter explored
MaxCount == 3
\* the configured translation.cache_size, scaled down
CacheSize == 2
\* number of wrapped-translator invocations explored
MaxCalls == 4

----------------------------------------------------------------------------
(* Values *)

\* A text is a sequence of characters; " " is whitespace.  Python's None and
\* JSON's null, where a text may stand, are sequences that are no text.
None == <<"None">>
JNull == <<"null">>
Hola == <<"h", "o", "l", "a">>

\* no exception raised
NoError == "NoError"

\* Python truthiness of an optional string
Truthy(v) == v # None /\ v # <<>>

\* The utterances handed to add_message: (text, language, is_outgoing, translation)
MessageInputs ==
    { [text |-> <<"g", "g">>, language |-> "en", is_outgoing |-> TRUE, translation |-> Hola],
      [text |-> <<"a", " ", "b">>, language |-> "en", is_outgoing |-> TRUE, translation |-> None],
      [text |-> <<" ", "a", " ", " ", "b">>, language |-> "es", is_outgoing |-> FALSE, translation |-> None] }

\* dict.get(key, default)
DictGet(d, key, default) == IF key \in DOMAIN d THEN d[key] ELSE default

\* A JSON value that is not an object (a number, an array) where one is expected.
JNumber == [json_type |-> "number"]
JArray == [json_type |-> "array"]
IsDict(v) == "json_type" \notin DOMAIN v

----------------------------------------------------------------------------
(* datetime *)

\* datetime.isoformat(): the fraction is written only when it is not zero
IsoFormat(t) ==
    IF t % TicksPerSec = 0
    THEN [iso |-> TRUE, sec |-> t \div TicksPerSec]
    ELSE [iso |-> TRUE, sec |-> t \div TicksPerSec, frac |-> t % TicksPerSec]

\* a string that is no ISO-8601 date
BadIsoString == [iso |-> FALSE]

\* fromisoformat that drops the fraction of a second
FromIsoFormat_NoFraction(s) ==
    IF ~IsDict(s) THEN [error |-> "TypeError"]
    ELSE IF ~s.iso THEN [error |-> "ValueError"]
    ELSE [error |-> NoError, value |-> s.sec * TicksPerSec]

\* datetime.fromisoformat(s): "TypeError" for a non-string, "ValueError" for a
\* string that does not parse, the datetime otherwise
FromIsoFormat(s) ==
    IF ~IsDict(s) THEN [error |-> "TypeError"]
    ELSE IF ~s.iso THEN [error |-> "ValueError"]
    ELSE [error |-> NoError,
          value |-> s.sec * TicksPerSec + (IF "frac" \in DOMAIN s THEN s.frac ELSE 0)]

\* datetime.now().strftime("%Y%m%d_%H%M%S"): second resolution
StrfTime(t) == t \div TicksPerSec

----------------------------------------------------------------------------
(* VoiceMessage *)

\* VoiceMessage.__init__ at clock value t
VoiceMessage(text, language, is_outgoing, translation, t) ==
    [text |-> text, language |-> language, is_outgoing |-> is_outgoing,
     translation |-> translation, timestamp |-> t]

\* an optional string written as "" when it is absent
ToJsonOpt_EmptyString(v) == IF v = None THEN <<>> ELSE v

\* json.dump / json.load of an optional string
ToJsonOpt(v) == IF v = None THEN JNull ELSE v
FromJsonOpt(v) == IF v = JNull THEN None ELSE v

\* VoiceMessage.to_dict, as json.dump writes it
ToDict(m) ==
    [text |-> m.text, language |-> m.language, is_outgoing |-> m.is_outgoing,
     translation |-> ToJsonOpt(m.translation), timestamp |-> IsoFormat(m.timestamp)]

\* VoiceMessage.from_dict at clock value t: [error, value]
FromDict(data, t) ==
    IF ~IsDict(data) THEN [error |-> "AttributeError"]
    ELSE LET message == VoiceMessage(DictGet(data, "text", <<>>),
                                     DictGet(data, "language", "en"),
                                     DictGet(data, "is_outgoing", FALSE),
                                     FromJsonOpt(DictGet(data, "translation", JNull)),
                                     t)
         IN IF "timestamp" \in DOMAIN data
            THEN LET p == FromIsoFormat(data["timestamp"])
                 IN IF p.error = NoError
                    THEN [error |-> NoError, value |-> [message EXCEPT !.timestamp = p.value]]
                    ELSE IF p.error = "ValueError"
                    THEN [error |-> NoError, value |-> message]
                    ELSE [error |-> p.error]
            ELSE [error |-> NoError, value |-> message]

----------------------------------------------------------------------------
(* SessionManager state *)

VARIABLES
    now,             \* the wall clock, in ticks
    messages,        \* SessionManager.messages
    stats,           \* SessionManager.stats
    session_id,      \* SessionManager.session_id
    start_time,      \* SessionManager.start_time
    user_languages,  \* SessionManager.user_languages
    files,           \* the file system: path -> content
    saved,           \* history: path -> the (messages, stats) save_session wrote there
    ret,             \* the last operation and what it returned
    cache,           \* CachedTranslator.cache: (text, source, target) -> translation
    base_calls,      \* invocations of base_translator.translate_text
    tret,            \* the last translator call made and what it returned
    thr,             \* the threads inside CachedTranslator.translate_text
    auto,            \* the autosave timers and the workers they started
    made,            \* the last call of Translator.create_translator and its outcome
    hand,            \* the threads inside MainWindow's utterance handlers
    saving,          \* the save_session call in progress on the autosave thread
    rec              \* the GoogleRecognizer, its worker threads and its caller

sessionVars == <<messages, stats, session_id, start_time, user_languages>>
translatorVars == <<cache, base_calls, tret, thr>>
\* the application around the session manager and the translators
appVars == <<made, hand, saving, rec>>
sessionAll == <<now, messages, stats, session_id, start_time, user_languages, files, saved, ret>>
\* what the session manager's own calls leave alone
otherVars == <<translatorVars, auto, appVars>>
vars == <<sessionAll, translatorVars, auto, appVars>>

EmptyStats ==
    [total_messages |-> 0, outgoing_messages |-> 0, incoming_messages |-> 0,
     languages |-> <<>>, word_count |-> 0]

\* len(text.split()): the number of maximal runs of non-whitespace characters
WordCount(text) ==
    Cardinality({ i \in 1..Len(text) : text[i] # " " /\ (i = 1 \/ text[i-1] = " ") })

\* add_message with the direction test dropped: every message counts as incoming
UpdateStats_NoDirection(s, message) ==
    [total_messages |-> s.total_messages + 1,
     outgoing_messages |-> s.outgoing_messages,
     incoming_messages |-> s.incoming_messages + 1,
     languages |-> IF message.language \in DOMAIN s.languages
                   THEN [s.languages EXCEPT ![message.language] = @ + 1]
                   ELSE s.languages @@ (message.language :> 1),
     word_count |-> s.word_count + WordCount(message.text)]

\* the statistics update of add_message
UpdateStats(s, message) ==
    LET langs0 == IF message.language \notin DOMAIN s.languages
                  THEN s.languages @@ (message.language :> 0)
                  ELSE s.languages
    IN [total_messages |-> s.total_messages + 1,
        outgoing_messages |-> IF message.is_outgoing THEN s.outgoing_messages + 1
                              ELSE s.outgoing_messages,
        incoming_messages |-> IF message.is_outgoing THEN s.incoming_messages
                              ELSE s.incoming_messages + 1,
        languages |-> [langs0 EXCEPT ![message.language] = @ + 1],
        word_count |-> s.word_count + WordCount(message.text)]

----------------------------------------------------------------------------
(* The file system *)

SessionIds == 0..(StrfTime(MaxTick) + 1)
\* an id carried by a file this run did not write
ExternalSessionId == StrfTime(MaxTick) + 1

\* sessions_dir / f"session_{session_id}.json"
DefaultPath(id) == [dir |-> "sessions", id |-> id]
\* a path the caller chose (the file dialog)
UserPath == [dir |-> "user", id |-> 0]
\* path=None: the caller names no path
NoPath == [dir |-> "none", id |-> 0]

Missing == [kind |-> "missing"]
\* content that json.load rejects
InvalidJson == [kind |-> "invalid"]
JsonFile(data) == [kind |-> "json", data |-> data]

\* the record save_session writes at clock value t
SessionData(t) ==
    [session_id |-> session_id,
     start_time |-> IsoFormat(start_time),
     end_time |-> IsoFormat(t),
     stats |-> stats,
     user_languages |-> user_languages,
     messages |-> [i \in 1..Len(messages) |-> ToDict(messages[i])]]

\* files this run did not write: hand-edited, truncated, or foreign
ExternalContents ==
    << Missing,
       InvalidJson,
       JsonFile(JArray),
       JsonFile([session_id |-> ExternalSessionId, messages |-> <<JNumber>>]),
       JsonFile([session_id |-> ExternalSessionId, start_time |-> JNumber]),
       JsonFile([session_id |-> ExternalSessionId,
                 user_languages |-> [p1 |-> "es"],
                 stats |-> [EmptyStats EXCEPT !.total_messages = 2],
                 messages |-> << [text |-> <<"g", "g">>, timestamp |-> IsoFormat(0)],
                                 [text |-> <<"a", " ", "b">>, language |-> "es",
                                  timestamp |-> JNumber] >>]),
       JsonFile([messages |-> << [text |-> <<"g", "g">>, language |-> "es",
                                  is_outgoing |-> TRUE, translation |-> JNull,
                                  timestamp |-> BadIsoString] >>]) >>

\* where those files are
ExternalPath(k) == [dir |-> "external", id |-> k]
ExternalPaths == { ExternalPath(k) : k \in DOMAIN ExternalContents }

\* the format_type values handed to export_session; "xml" is none it knows
ExportFormats == {"txt", "html", "json", "pdf", "csv", "xml"}

\* the extension export_session picks for its default path
Ext(format_type) ==
    IF format_type \in {"txt", "html", "json", "pdf", "csv"} THEN format_type ELSE "txt"

\* export_dir / f"export_{session_id}{ext}"
DefaultExportPath(id, ext) == [dir |-> "exports", id |-> id, ext |-> ext]
ExportPaths == { DefaultExportPath(i, Ext(f)) : i \in SessionIds, f \in ExportFormats }

Paths == { DefaultPath(i) : i \in SessionIds } \cup {UserPath} \cup ExternalPaths \cup ExportPaths

----------------------------------------------------------------------------
(* SessionManager operations *)

NoSnapshot == [taken |-> FALSE]
Snapshot(msgs, s) == [taken |-> TRUE, messages |-> msgs, stats |-> s]

Returned(op, result) == [op |-> op, result |-> result]

\* SessionManager.add_message
AddMessage(m) ==
    /\ Len(messages) < MaxMsgs
    /\ stats.total_messages < MaxCount
    /\ LET message == VoiceMessage(m.text, m.language, m.is_outgoing, m.translation, now)
       IN /\ messages' = Append(messages, message)
          /\ stats' = UpdateStats(stats, message)
    /\ ret' = Returned("add_message", TRUE)
    /\ UNCHANGED <<now, session_id, start_time, user_languages, files, saved, otherVars>>

\* clear that empties the log and leaves the counters as they are
Clear_KeepsStats ==
    /\ messages' = <<>>
    /\ session_id' = StrfTime(now)
    /\ start_time' = now
    /\ ret' = Returned("clear", TRUE)
    /\ UNCHANGED <<now, stats, user_languages, files, saved, otherVars>>

\* SessionManager.clear
Clear ==
    /\ messages' = <<>>
    /\ stats' = EmptyStats
    /\ session_id' = StrfTime(now)
    /\ start_time' = now
    /\ ret' = Returned("clear", TRUE)
    /\ UNCHANGED <<now, user_languages, files, saved, otherVars>>

\* the state of the session manager as one record
Session ==
    [messages |-> messages, stats |-> stats, session_id |-> session_id,
     start_time |-> start_time, user_languages |-> user_languages]

\* the loop of load_session over the record's messages, from entry i on:
\* [ok, messages], stopping at the first entry from_dict raises on
RECURSIVE LoadMessages(_, _, _, _)
LoadMessages(entries, i, acc, t) ==
    IF i > Len(entries) THEN [ok |-> TRUE, messages |-> acc]
    ELSE LET m == FromDict(entries[i], t)
         IN IF m.error # NoError THEN [ok |-> FALSE, messages |-> acc]
            ELSE LoadMessages(entries, i + 1, Append(acc, m.value), t)

\* the body of load_session on file content c at clock value t, from session s:
\* [ok, session], the session being what the manager holds when it returns
LoadSession(s, c, t) ==
    IF c.kind # "json" THEN [ok |-> FALSE, session |-> s]
    ELSE LET data == c.data
             s1 == [s EXCEPT !.messages = <<>>]
         IN IF ~IsDict(data) THEN [ok |-> FALSE, session |-> s1]
            ELSE LET s2 == [s1 EXCEPT !.session_id = DictGet(data, "session_id", s.session_id)]
                     st == FromIsoFormat(DictGet(data, "start_time", IsoFormat(s.start_time)))
                 IN IF st.error = "TypeError" THEN [ok |-> FALSE, session |-> s2]
                    ELSE LET s3 == IF st.error = NoError
                                   THEN [s2 EXCEPT !.start_time = st.value] ELSE s2
                             s4 == [s3 EXCEPT !.user_languages = DictGet(data, "user_languages", <<>>),
                                              !.stats = DictGet(data, "stats", s.stats)]
                             l == LoadMessages(DictGet(data, "messages", <<>>), 1, <<>>, t)
                         IN [ok |-> l.ok, session |-> [s4 EXCEPT !.messages = l.messages]]

\* the outcomes of writing a file: written, open() fails, or the write fails
\* after open() has truncated the file
IoOutcomes == {"ok", "open_fails", "write_fails"}

\* a serializer that reverses self.messages in place while it writes
ReadOnly_ReversesLog ==
    /\ messages' = [i \in 1..Len(messages) |-> messages[Len(messages) + 1 - i]]
    /\ UNCHANGED <<now, stats, session_id, start_time, user_languages>>

\* save_session, export_session and the serializers assign to no attribute
\* of the session manager
ReadOnly == UNCHANGED <<now, sessionVars>>

\* save_session without the test for an empty log
SaveSessionCall_NoEmptyCheck(path, io) ==
    /\ LET p == IF path = NoPath THEN DefaultPath(session_id) ELSE path
       IN CASE io = "ok" ->
                 /\ files' = [files EXCEPT ![p] = JsonFile(SessionData(now))]
                 /\ saved' = [saved EXCEPT ![p] = Snapshot(messages, stats)]
                 /\ ret' = Returned("save_session", TRUE)
            [] io = "open_fails" ->
                 /\ ret' = Returned("save_session", FALSE)
                 /\ UNCHANGED <<files, saved>>
            [] io = "write_fails" ->
                 /\ files' = [files EXCEPT ![p] = InvalidJson]
                 /\ saved' = [saved EXCEPT ![p] = NoSnapshot]
                 /\ ret' = Returned("save_session", FALSE)
    /\ ReadOnly

\* SessionManager.save_session(path), on the thread that calls it
SaveSessionCall(path, io) ==
    /\ IF messages = <<>>
       THEN /\ ret' = Returned("save_session", FALSE)
            /\ UNCHANGED <<files, saved>>
       ELSE LET p == IF path = NoPath THEN DefaultPath(session_id) ELSE path
            IN CASE io = "ok" ->
                      /\ files' = [files EXCEPT ![p] = JsonFile(SessionData(now))]
                      /\ saved' = [saved EXCEPT ![p] = Snapshot(messages, stats)]
                      /\ ret' = Returned("save_session", TRUE)
                 [] io = "open_fails" ->
                      /\ ret' = Returned("save_session", FALSE)
                      /\ UNCHANGED <<files, saved>>
                 [] io = "write_fails" ->
                      /\ files' = [files EXCEPT ![p] = InvalidJson]
                      /\ saved' = [saved EXCEPT ![p] = NoSnapshot]
                      /\ ret' = Returned("save_session", FALSE)
    /\ ReadOnly

\* a call of save_session(path) by the application
SaveSession(path, io) ==
    /\ SaveSessionCall(path, io)
    /\ UNCHANGED otherVars

\* strftime("%H:%M:%S") and strftime("%Y-%m-%d %H:%M:%S"): second resolution
\* (the clock values of the model lie within one day)
TimeOfDay(t) == StrfTime(t)

Speaker(m) == IF m.is_outgoing THEN "You" ELSE "Teammate"

\* GAMING_LANGUAGES.get(lang_code, {}).get('name', lang_code)
LangName(l) == IF l = "en" THEN "English" ELSE IF l = "es" THEN "Spanish" ELSE l

\* the header lines the text and HTML exports share
ExportHeader(t) ==
    [session_id |-> session_id, start_time |-> StrfTime(start_time),
     end_time |-> StrfTime(t), total_messages |-> stats.total_messages]

\* what _export_text writes at clock value t: the header, then for every
\* message a line and, when the translation is truthy, a translation line
ExportText(t) ==
    [kind |-> "text",
     header |-> ExportHeader(t),
     lines |-> [i \in 1..Len(messages) |->
                  LET m == messages[i]
                      line == [time |-> TimeOfDay(m.timestamp), speaker |-> Speaker(m),
                               language |-> m.language, text |-> m.text]
                  IN IF Truthy(m.translation)
                     THEN <<line, [translation |-> m.translation]>>
                     ELSE <<line>>]]

\* what _export_html writes at clock value t
ExportHtml(t) ==
    [kind |-> "html",
     header |-> ExportHeader(t),
     outgoing_messages |-> stats.outgoing_messages,
     incoming_messages |-> stats.incoming_messages,
     languages |-> DOMAIN stats.languages,
     messages |-> [i \in 1..Len(messages) |->
                     LET m == messages[i]
                         div == [class |-> IF m.is_outgoing THEN "outgoing" ELSE "incoming",
                                 time |-> TimeOfDay(m.timestamp), speaker |-> Speaker(m),
                                 content |-> m.text, language |-> LangName(m.language)]
                     IN IF Truthy(m.translation)
                        THEN <<div, [translation |-> m.translation]>>
                        ELSE <<div>>]]

CsvHeader == <<"Timestamp", "Speaker", "Language", "Text", "Translation">>

\* _export_csv that leaves the translation field out when there is none
ExportCsv_ShortRows ==
    [kind |-> "csv",
     rows |-> <<CsvHeader>> \o
              [i \in 1..Len(messages) |->
                  LET m == messages[i]
                      row == << StrfTime(m.timestamp), Speaker(m), m.language, m.text >>
                  IN IF Truthy(m.translation) THEN Append(row, m.translation) ELSE row]]

\* what _export_csv writes: the header row and one row per message
ExportCsv ==
    [kind |-> "csv",
     rows |-> <<CsvHeader>> \o
              [i \in 1..Len(messages) |->
                  LET m == messages[i]
                  IN << StrfTime(m.timestamp), Speaker(m), m.language, m.text,
                        IF Truthy(m.translation) THEN m.translation ELSE <<>> >>]]

\* a file that open(path, 'w') truncated and whose writing stopped part-way
Truncated == [kind |-> "truncated"]

\* what the serializer of format_type leaves in the file when writing succeeds
ExportContent(format_type, t) ==
    CASE format_type = "html" -> ExportHtml(t)
      [] format_type = "json" -> JsonFile(SessionData(t))
      [] format_type = "csv" -> ExportCsv
      [] OTHER -> ExportText(t)

\* SessionManager.export_session(format_type, path). _export_pdf opens no file:
\* it returns False when reportlab is missing, and with reportlab present
\* styles.add of a second 'Title' style raises KeyError before the document
\* is built.
ExportSessionCall(format_type, path, io) ==
    /\ IF messages = <<>>
       THEN /\ ret' = [op |-> "export_session", result |-> FALSE, format |-> format_type]
            /\ UNCHANGED <<files, saved>>
       ELSE LET p == IF path = NoPath THEN DefaultExportPath(session_id, Ext(format_type))
                     ELSE path
            IN CASE format_type = "pdf" \/ io = "open_fails" ->
                      /\ ret' = [op |-> "export_session", result |-> FALSE, format |-> format_type]
                      /\ UNCHANGED <<files, saved>>
                 [] format_type # "pdf" /\ io = "ok" ->
                      /\ files' = [files EXCEPT ![p] = ExportContent(format_type, now)]
                      /\ saved' = [saved EXCEPT ![p] = IF format_type = "json"
                                                      THEN Snapshot(messages, stats)
                                                      ELSE NoSnapshot]
                      /\ ret' = [op |-> "export_session", result |-> TRUE, format |-> format_type]
                 [] format_type # "pdf" /\ io = "write_fails" ->
                      /\ files' = [files EXCEPT ![p] = IF format_type = "json"
                                                      THEN InvalidJson ELSE Truncated]
                      /\ saved' = [saved EXCEPT ![p] = NoSnapshot]
                      /\ ret' = [op |-> "export_session", result |-> FALSE, format |-> format_type]
    /\ ReadOnly

\* a call of export_session(format_type, path) by the application
ExportSession(format_type, path, io) ==
    /\ ExportSessionCall(format_type, path, io)
    /\ UNCHANGED otherVars

\* SessionManager.load_session(path)
LoadSessionOp(path) ==
    /\ LET r == LoadSession(Session, files[path], now)
       IN /\ messages' = r.session.messages
          /\ stats' = r.session.stats
          /\ session_id' = r.session.session_id
          /\ start_time' = r.session.start_time
          /\ user_languages' = r.session.user_languages
          /\ ret' = [op |-> "load_session", result |-> r.ok, path |-> path]
    /\ UNCHANGED <<now, files, saved, otherVars>>

\* time passes
Tick ==
    /\ now < MaxTick
    /\ now' = now + 1
    /\ ret' = Returned("tick", TRUE)
    /\ UNCHANGED <<sessionVars, files, saved, otherVars>>

----------------------------------------------------------------------------
(* Translators *)

\* the texts handed to the translators
TranslatorTexts == { <<>>, <<"g", "g">>, <<"h", "i">> }
SourceLangs == {"auto", "en"}
TargetLangs == {"en", "es"}

\* what the googletrans call does: raise, or return a result with this text
Raises == [raises |-> TRUE]
Gives(t) == [raises |-> FALSE, text |-> t]
TranslateOutcomes == { Raises, Gives(<<>>), Gives(Hola) }

\* what the googletrans detection does: raise, or return this language
Detects(l) == [raises |-> FALSE, lang |-> l]
DetectOutcomes == { Raises, Detects("en"), Detects("es") }

\* translate_text without the same-language test
GoogleTranslateText_NoShortCircuit(text, target, source, outcome) ==
    IF ~Truthy(text) THEN [result |-> None, invoked |-> FALSE]
    ELSE IF outcome.raises THEN [result |-> None, invoked |-> TRUE]
    ELSE [result |-> outcome.text, invoked |-> TRUE]

\* translate_text that falls back to the untranslated text when the backend raises
GoogleTranslateText_ErrorText(text, target, source, outcome) ==
    IF ~Truthy(text) THEN [result |-> None, invoked |-> FALSE]
    ELSE IF source = target /\ source # "auto" THEN [result |-> text, invoked |-> FALSE]
    ELSE IF outcome.raises THEN [result |-> text, invoked |-> TRUE]
    ELSE [result |-> outcome.text, invoked |-> TRUE]

\* GoogleTranslator.translate_text: [result, invoked], invoked telling whether
\* the googletrans translate was called (self.translator is set by __init__,
\* which raises instead of leaving it None)
GoogleTranslateText(text, target, source, outcome) ==
    IF ~Truthy(text) THEN [result |-> None, invoked |-> FALSE]
    ELSE IF source = target /\ source # "auto" THEN [result |-> text, invoked |-> FALSE]
    ELSE IF outcome.raises THEN [result |-> None, invoked |-> TRUE]
    ELSE [result |-> outcome.text, invoked |-> TRUE]

\* detect_language without the try/except: the exception reaches the caller
DetectLanguage_Propagates(text, outcome) ==
    IF ~Truthy(text) THEN "en"
    ELSE IF outcome.raises THEN "raised"
    ELSE outcome.lang

\* GoogleTranslator.detect_language
DetectLanguage(text, outcome) ==
    IF ~Truthy(text) THEN "en"
    ELSE IF outcome.raises THEN "en"
    ELSE outcome.lang

\* CachedTranslator.detect_language
CachedDetectLanguage(text, outcome) == DetectLanguage(text, outcome)

\* a cache key that leaves the source language out
CacheKey_NoSource(text, target, source) == <<text, "auto", target>>

\* the cache key of CachedTranslator.translate_text
CacheKey(text, target, source) == <<text, source, target>>

\* the capacity test off by one
ShouldStore_OffByOne(c, result) == Truthy(result) /\ Cardinality(DOMAIN c) <= CacheSize

\* "if result and len(self.cache) < self.cache_size"
ShouldStore(c, result) == Truthy(result) /\ Cardinality(DOMAIN c) < CacheSize

\* "self.cache[cache_key] = result"
Store(c, key, result) ==
    IF key \in DOMAIN c THEN [c EXCEPT ![key] = result] ELSE c @@ (key :> result)

\* a call as its caller sees it, with whether it invoked the wrapped translator
\* and whether the googletrans call was made
Call(op, text, target, source, outcome, result, base_invoked, backend_invoked) ==
    [op |-> op, text |-> text, target |-> target, source |-> source,
     outcome |-> outcome, result |-> result,
     base_invoked |-> base_invoked, backend_invoked |-> backend_invoked]

\* a direct call of GoogleTranslator.translate_text
GoogleTranslate(text, target, source, outcome) ==
    LET r == GoogleTranslateText(text, target, source, outcome)
    IN /\ tret' = Call("google_translate", text, target, source, outcome, r.result, FALSE, r.invoked)
       /\ UNCHANGED <<cache, base_calls, thr, sessionAll, auto, appVars>>

\* CachedTranslator.translate_text, run from call to return, on the thread
\* that calls it
CachedTranslateCall(text, target, source, outcome) ==
    LET key == CacheKey(text, target, source)
    IN /\ base_calls < MaxCalls
       /\ IF ~Truthy(text)
          THEN /\ tret' = Call("cached_translate", text, target, source, outcome, None, FALSE, FALSE)
               /\ UNCHANGED <<cache, base_calls>>
          ELSE IF key \in DOMAIN cache
          THEN /\ tret' = Call("cached_translate", text, target, source, outcome, cache[key], FALSE, FALSE)
               /\ UNCHANGED <<cache, base_calls>>
          ELSE LET r == GoogleTranslateText(text, target, source, outcome)
               IN /\ base_calls' = base_calls + 1
                  /\ cache' = IF ShouldStore(cache, r.result)
                              THEN Store(cache, key, r.result) ELSE cache
                  /\ tret' = Call("cached_translate", text, target, source, outcome, r.result, TRUE, r.invoked)

\* a call of CachedTranslator.translate_text
CachedTranslate(text, target, source, outcome) ==
    /\ CachedTranslateCall(text, target, source, outcome)
    /\ UNCHANGED <<thr, sessionAll, auto, appVars>>

\* a direct call of GoogleTranslator.detect_language
GoogleDetect(text, outcome) ==
    /\ tret' = Call("google_detect", text, "", "", outcome, DetectLanguage(text, outcome), FALSE, FALSE)
    /\ UNCHANGED <<cache, base_calls, thr, sessionAll, auto, appVars>>

\* a call of CachedTranslator.detect_language
CachedDetect(text, outcome) ==
    /\ tret' = Call("cached_detect", text, "", "", outcome, CachedDetectLanguage(text, outcome), TRUE, FALSE)
    /\ UNCHANGED <<cache, base_calls, thr, sessionAll, auto, appVars>>

\* a call of get_cache_stats() on a CachedTranslator (or of get_stats() on its
\* cache, a dict): the class defines translate_text and detect_language only
\* and keeps no hit or miss counter, so the attribute lookup raises
GetCacheStats ==
    /\ tret' = Call("get_cache_stats", <<>>, "", "", Raises,
                    [error |-> "AttributeError"], FALSE, FALSE)
    /\ UNCHANGED <<cache, base_calls, thr, sessionAll, auto, appVars>>

\* The threads that call translate_text: the recognition worker (through the
\* recognizer's callback) and the UI thread (typed text)
Threads == {"worker", "ui"}
Idle == [pc |-> "idle"]

\* translate_text up to the cache lookup: empty text and a hit return at once,
\* a miss goes on to the wrapped translator
T_Call(t, text, target, source) ==
    /\ thr[t].pc = "idle"
    /\ IF ~Truthy(text) \/ CacheKey(text, target, source) \in DOMAIN cache
       THEN UNCHANGED thr
       ELSE thr' = [thr EXCEPT ![t] = [pc |-> "backend", text |-> text,
                                       target |-> target, source |-> source]]
    /\ UNCHANGED <<cache, base_calls, tret, sessionAll, auto, appVars>>

\* "result = self.base_translator.translate_text(...)"
T_Backend(t, outcome) ==
    /\ thr[t].pc = "backend"
    /\ base_calls < MaxCalls
    /\ LET r == GoogleTranslateText(thr[t].text, thr[t].target, thr[t].source, outcome)
       IN /\ base_calls' = base_calls + 1
          /\ thr' = [thr EXCEPT ![t] = [pc |-> "check", text |-> thr[t].text,
                                        target |-> thr[t].target, source |-> thr[t].source,
                                        result |-> r.result]]
    /\ UNCHANGED <<cache, tret, sessionAll, auto, appVars>>

\* the test "if result and len(self.cache) < self.cache_size"
T_Check(t) ==
    /\ thr[t].pc = "check"
    /\ thr' = [thr EXCEPT ![t] = IF ShouldStore(cache, thr[t].result)
                                 THEN [thr[t] EXCEPT !.pc = "store"]
                                 ELSE Idle]
    /\ UNCHANGED <<cache, base_calls, tret, sessionAll, auto, appVars>>

\* the assignment "self.cache[cache_key] = result", and the return
T_Store(t) ==
    /\ thr[t].pc = "store"
    /\ cache' = Store(cache, CacheKey(thr[t].text, thr[t].target, thr[t].source), thr[t].result)
    /\ thr' = [thr EXCEPT ![t] = Idle]
    /\ UNCHANGED <<base_calls, tret, sessionAll, auto, appVars>>

----------------------------------------------------------------------------
(* MainWindow: the utterance handlers *)

\* The recognition worker runs _on_voice_recognized as the recognizer's
\* callback; the UI thread runs _translate_and_speak_text for typed text.
\* hand[t] is where thread t is in its handler: "idle", "message" (the
\* VoiceMessage is built, add_message not yet called) or "stats" (inside
\* add_message, after the append and before the statistics update).

\* the languages of the "my language" selector
MyLangs == {"en", "es"}

\* a handler that logs an error text when there is no translation
HandlerMessage_ErrorString(text, language, translation, t) ==
    VoiceMessage(text, language, TRUE,
                 IF translation = None THEN <<"e", "r", "r">> ELSE translation, t)

\* "message = VoiceMessage(text, lang, is_outgoing=True, translation=translation)"
HandlerMessage(text, language, translation, t) ==
    VoiceMessage(text, language, TRUE, translation, t)

\* the handlers in progress
Busy == { t \in Threads : hand[t].pc # "idle" }

\* room in the explored log for one more handler
Room ==
    /\ Len(messages) + Cardinality(Busy) < MaxMsgs
    /\ stats.total_messages + Cardinality(Busy) < MaxCount

\* _on_voice_recognized(text) up to the message, the language of the
\* utterance being the target language: no translation is asked for
OnVoiceRecognizedSame(text, my_language, auto_detect, detected, target) ==
    /\ hand["worker"].pc = "idle"
    /\ Room
    /\ Truthy(text)
    /\ LET detected_lang == IF auto_detect THEN CachedDetectLanguage(text, detected)
                            ELSE my_language
       IN /\ detected_lang = target
          /\ hand' = [hand EXCEPT !["worker"] =
                         [pc |-> "message", text |-> text, translated |-> FALSE, returned |-> None,
                          message |-> HandlerMessage(text, detected_lang, None, now)]]
    /\ UNCHANGED <<sessionAll, translatorVars, auto, made, saving, rec>>

\* _on_voice_recognized(text) up to the message, translate_text being called
OnVoiceRecognized(text, my_language, auto_detect, detected, target, outcome) ==
    /\ hand["worker"].pc = "idle"
    /\ Room
    /\ Truthy(text)
    /\ LET detected_lang == IF auto_detect THEN CachedDetectLanguage(text, detected)
                            ELSE my_language
       IN /\ detected_lang # target
          /\ CachedTranslateCall(text, target, detected_lang, outcome)
          /\ hand' = [hand EXCEPT !["worker"] =
                        [pc |-> "message", text |-> text, translated |-> TRUE,
                         returned |-> tret'.result,
                         message |-> HandlerMessage(text, detected_lang, tret'.result, now)]]
    /\ UNCHANGED <<thr, sessionAll, auto, made, saving, rec>>

\* _translate_and_speak_text(text) up to the message
TranslateAndSpeakText(text, my_language, target, outcome) ==
    /\ hand["ui"].pc = "idle"
    /\ Room
    /\ CachedTranslateCall(text, target, my_language, outcome)
    /\ hand' = [hand EXCEPT !["ui"] =
                  [pc |-> "message", text |-> text, translated |-> TRUE,
                   returned |-> tret'.result,
                   message |-> HandlerMessage(text, my_language, tret'.result, now)]]
    /\ UNCHANGED <<thr, sessionAll, auto, made, saving, rec>>

\* add_message on thread t: "self.messages.append(message)"
AddMessageAppend(t) ==
    /\ hand[t].pc = "message"
    /\ messages' = Append(messages, hand[t].message)
    /\ hand' = [hand EXCEPT ![t].pc = "stats"]
    /\ UNCHANGED <<now, stats, session_id, start_time, user_languages, files, saved, ret,
                   translatorVars, auto, made, saving, rec>>

\* add_message on thread t: the statistics update, and the return
AddMessageStats(t) ==
    /\ hand[t].pc = "stats"
    /\ stats' = UpdateStats(stats, hand[t].message)
    /\ ret' = Returned("add_message", TRUE)
    /\ hand' = [hand EXCEPT ![t] = Idle]
    /\ UNCHANGED <<now, messages, session_id, start_time, user_languages, files, saved,
                   translatorVars, auto, made, saving, rec>>

----------------------------------------------------------------------------
(* save_session statement by statement *)

\* save_session(None) on the autosave thread up to the end of "session_data =
\* {...}": the dict holds the session id, the formatted times and a new list
\* of the messages' dicts, and refers to self.stats and self.user_languages
SaveBuild ==
    /\ saving.pc = "idle"
    /\ IF messages = <<>>
       THEN /\ ret' = Returned("save_session", FALSE)
            /\ UNCHANGED saving
       ELSE /\ saving' = [pc |-> "dump", path |-> DefaultPath(session_id),
                          log |-> messages,
                          data |-> [session_id |-> session_id,
                                    start_time |-> IsoFormat(start_time),
                                    end_time |-> IsoFormat(now),
                                    messages |-> [i \in 1..Len(messages) |-> ToDict(messages[i])]]]
            /\ UNCHANGED ret
    /\ UNCHANGED <<now, sessionVars, files, saved, translatorVars, auto, made, hand, rec>>

\* the rest of that call: open(path, 'w') and json.dump(session_data, f),
\* which reads the stats dict and the user languages as they are now
SaveDump(io) ==
    /\ saving.pc = "dump"
    /\ CASE io = "ok" ->
              /\ files' = [files EXCEPT ![saving.path] =
                              JsonFile(saving.data @@ [stats |-> stats,
                                                       user_languages |-> user_languages])]
              /\ saved' = [saved EXCEPT ![saving.path] = Snapshot(saving.log, stats)]
              /\ ret' = Returned("save_session", TRUE)
         [] io = "open_fails" ->
              /\ ret' = Returned("save_session", FALSE)
              /\ UNCHANGED <<files, saved>>
         [] io = "write_fails" ->
              /\ files' = [files EXCEPT ![saving.path] = InvalidJson]
              /\ saved' = [saved EXCEPT ![saving.path] = NoSnapshot]
              /\ ret' = Returned("save_session", FALSE)
    /\ saving' = Idle
    /\ UNCHANGED <<now, sessionVars, translatorVars, auto, made, hand, rec>>

----------------------------------------------------------------------------
(* GoogleRecognizer *)

\* rec.recognizer   : sr.Recognizer() was created (the library is installed)
\* rec.is_listening : the flag
\* rec.callback     : a callback is stored
\* rec.workers      : one entry per thread start_listening created, the place
\*                    of that thread in _recognition_loop: "top" (the while
\*                    test), "listen", "recognize" or "dead" (returned)
\* rec.caller       : "idle", or "join" inside stop_listening's join
\* rec.stopped      : stop_listening ran and start_listening has not since
\* rec.delivered    : the workers that passed a text to the callback since
\*                    the latest start_listening that returned True
\* rec.last         : the latest call of the caller and what it returned

\* the threads start_listening may create in the explored runs
MaxStarts == 2

StartOutcomes == {"ok", "mic_fails", "calibration_fails"}
ListenOutcomes == {"audio", "timeout", "error"}
RecognizeOutcomes == {"text", "empty", "unknown", "request_error"}

RecCall(op, value, cause) == [op |-> op, value |-> value, cause |-> cause]

\* GoogleRecognizer.__init__
NewRecognizer(library) ==
    [recognizer |-> library, is_listening |-> FALSE, callback |-> FALSE,
     workers |-> <<>>, caller |-> "idle", stopped |-> FALSE, delivered |-> {},
     last |-> RecCall("init", TRUE, "")]

\* the threads that have not returned from _recognition_loop
Live == { i \in 1..Len(rec.workers) : rec.workers[i] # "dead" }

notRec == <<sessionAll, translatorVars, auto, made, hand, saving>>

\* start_listening(device_index, callback)
StartListening(outcome) ==
    /\ rec.caller = "idle"
    /\ rec' =
         IF ~rec.recognizer
         THEN [rec EXCEPT !.last = RecCall("start_listening", FALSE, "no_recognizer")]
         ELSE IF rec.is_listening
         THEN [rec EXCEPT !.last = RecCall("start_listening", FALSE, "listening")]
         ELSE CASE outcome = "mic_fails" ->
                     \* sr.Microphone(...) raises
                     [rec EXCEPT !.last = RecCall("start_listening", FALSE, outcome),
                                 !.stopped = FALSE]
                [] outcome = "calibration_fails" ->
                     \* adjust_for_ambient_noise raises, after the assignments
                     [rec EXCEPT !.callback = TRUE, !.is_listening = TRUE,
                                 !.last = RecCall("start_listening", FALSE, outcome),
                                 !.stopped = FALSE]
                [] outcome = "ok" ->
                     [rec EXCEPT !.callback = TRUE, !.is_listening = TRUE,
                                 !.workers = Append(@, "top"),
                                 !.delivered = {},
                                 !.last = RecCall("start_listening", TRUE, outcome),
                                 !.stopped = FALSE]
    /\ (rec.recognizer /\ ~rec.is_listening /\ outcome = "ok") => Len(rec.workers) < MaxStarts
    /\ UNCHANGED <<notRec>>

\* stop_listening up to the join: the flag is cleared
StopListening ==
    /\ rec.caller = "idle"
    /\ rec' = [rec EXCEPT !.is_listening = FALSE,
                          !.stopped = TRUE,
                          !.caller = IF rec.workers = <<>> THEN "idle" ELSE "join",
                          !.last = RecCall("stop_listening", TRUE, "")]
    /\ UNCHANGED <<notRec>>

\* "self.recognition_thread.join(timeout=2.0)" returns: the latest thread has
\* ended, or the two seconds have passed
JoinReturns(timed_out) ==
    /\ rec.caller = "join"
    /\ timed_out \/ rec.workers[Len(rec.workers)] = "dead"
    /\ rec' = [rec EXCEPT !.caller = "idle"]
    /\ UNCHANGED <<notRec>>

\* "while self.is_listening:"
W_Top(i) ==
    /\ i \in 1..Len(rec.workers)
    /\ rec.workers[i] = "top"
    /\ rec' = [rec EXCEPT !.workers[i] = IF rec.is_listening THEN "listen" ELSE "dead"]
    /\ UNCHANGED <<notRec>>

\* "audio = self.recognizer.listen(source, timeout=1, phrase_time_limit=5)"
\* returns or raises, then "if not self.is_listening: break"
W_Listen(i, outcome) ==
    /\ i \in 1..Len(rec.workers)
    /\ rec.workers[i] = "listen"
    /\ rec' = [rec EXCEPT !.workers[i] =
                  CASE outcome = "timeout" -> "top"
                    [] outcome = "error" -> "dead"
                    [] outcome = "audio" -> IF rec.is_listening THEN "recognize" ELSE "dead"]
    /\ UNCHANGED <<notRec>>

\* "text = self.recognizer.recognize_google(audio)" returns or raises, then
\* "if text and self.callback: self.callback(text)"
W_Recognize(i, outcome) ==
    /\ i \in 1..Len(rec.workers)
    /\ rec.workers[i] = "recognize"
    /\ rec' = [rec EXCEPT !.workers[i] = IF outcome = "request_error" THEN "dead" ELSE "top",
                          !.delivered = IF outcome = "text" /\ rec.callback
                                        THEN @ \cup {i} ELSE @]
    /\ UNCHANGED <<notRec>>

----------------------------------------------------------------------------
(* Translator factory *)

\* the configured translation service: the one the factory knows, and another
Services == {"google", "invalid"}

\* the googletrans library: importable and working, not installed, or
\* importable with a constructor that raises
Libraries == {"usable", "missing", "init_fails"}

NotMade == [called |-> FALSE]
Translator_(class) == [kind |-> "translator", class |-> class]
Raised(error) == [kind |-> "raises", error |-> error]

\* Translator.create_translator(config): the service is read and logged, the
\* import of googletrans decides.  An ImportError becomes ValueError; what
\* GoogleTranslator.__init__ raises otherwise is not caught.
CreateTranslator(service, lib) ==
    IF lib = "missing" THEN Raised("ValueError")
    ELSE IF lib = "init_fails" THEN Raised("Exception")
    ELSE Translator_("GoogleTranslator")

\* a call of Translator.create_translator
CreateTranslatorOp(service, lib) ==
    /\ made' = [called |-> TRUE, service |-> service, lib |-> lib,
                result |-> CreateTranslator(service, lib)]
    /\ UNCHANGED <<sessionAll, translatorVars, auto, hand, saving, rec>>

----------------------------------------------------------------------------
(* Autosave *)

\* auto.timer is the threading.Timer that self.auto_save_timer refers to:
\* "none" while the attribute does not exist, "pending" from start() until the
\* timer fires or is cancelled.  auto.pending counts the started timers that
\* have neither fired nor been cancelled, auto.workers are the
\* auto_save_worker calls in progress, auto.stopped says that stop_auto_save
\* has returned.

\* the manager after __init__ with session.auto_save true: _start_auto_save
\* has started the first timer
AutoStarted == [timer |-> "pending", pending |-> 1, workers |-> <<>>, stopped |-> FALSE]
\* the manager after __init__ with session.auto_save false
AutoNever == [timer |-> "none", pending |-> 0, workers |-> <<>>, stopped |-> FALSE]

Remove(seq, i) == [j \in 1..(Len(seq) - 1) |-> IF j < i THEN seq[j] ELSE seq[j + 1]]

\* a timer's interval ends: its thread calls auto_save_worker
TimerFires ==
    /\ auto.pending > 0
    /\ \E t \in (IF auto.timer # "pending" THEN {auto.timer}
                  ELSE IF auto.pending = 1 THEN {"fired"} ELSE {"fired", "pending"}) :
          auto' = [auto EXCEPT !.timer = t, !.pending = @ - 1,
                               !.workers = Append(@, [pc |-> "save"])]
    /\ UNCHANGED <<sessionAll, translatorVars, appVars>>

\* auto_save_worker: "self.save_session()"
WorkerSave(i, io) ==
    /\ i \in DOMAIN auto.workers
    /\ auto.workers[i].pc = "save"
    /\ SaveSessionCall(NoPath, io)
    /\ auto' = [auto EXCEPT !.workers[i] = [pc |-> "reschedule", result |-> ret'.result]]
    /\ UNCHANGED <<translatorVars, appVars>>

\* auto_save_worker that schedules the next save only after a successful one
WorkerReschedule_IfSaved(i) ==
    /\ i \in DOMAIN auto.workers
    /\ auto.workers[i].pc = "reschedule"
    /\ auto' = IF auto.workers[i].result
               THEN [auto EXCEPT !.timer = "pending", !.pending = @ + 1,
                                 !.workers = Remove(@, i)]
               ELSE [auto EXCEPT !.workers = Remove(@, i)]
    /\ UNCHANGED <<sessionAll, translatorVars, appVars>>

\* auto_save_worker: a new Timer is assigned to self.auto_save_timer and
\* started, and the worker returns.  (A cancel() between the assignment and
\* start() keeps the timer from ever firing, as a cancel() after start() does.)
WorkerReschedule(i) ==
    /\ i \in DOMAIN auto.workers
    /\ auto.workers[i].pc = "reschedule"
    /\ auto' = [auto EXCEPT !.timer = "pending", !.pending = @ + 1,
                            !.workers = Remove(@, i)]
    /\ UNCHANGED <<sessionAll, translatorVars, appVars>>

\* SessionManager.stop_auto_save: cancel() stops a timer that is still
\* waiting and does nothing to one that has fired
StopAutoSave ==
    /\ auto' = IF auto.timer = "pending"
               THEN [auto EXCEPT !.timer = "cancelled", !.pending = @ - 1, !.stopped = TRUE]
               ELSE [auto EXCEPT !.stopped = TRUE]
    /\ ret' = Returned("stop_auto_save", TRUE)
    /\ UNCHANGED <<now, sessionVars, files, saved, translatorVars, appVars>>

----------------------------------------------------------------------------
(* Specifications *)

\* SessionManager.__init__ at clock value t with session.auto_save as given,
\* no session file written yet
InitWith(t, auto_save, library) ==
    /\ now = t
    /\ messages = <<>>
    /\ stats = EmptyStats
    /\ session_id = StrfTime(t)
    /\ start_time = t
    /\ user_languages = <<>>
    /\ files = [p \in Paths |-> IF p \in ExternalPaths THEN ExternalContents[p.id] ELSE Missing]
    /\ saved = [p \in Paths |-> NoSnapshot]
    /\ ret = Returned("init", TRUE)
    /\ cache = <<>>
    /\ base_calls = 0
    /\ tret = Call("init", <<>>, "", "", Raises, None, FALSE, FALSE)
    /\ thr = [t1 \in Threads |-> Idle]
    /\ auto = IF auto_save THEN AutoStarted ELSE AutoNever
    /\ made = NotMade
    /\ hand = [t1 \in Threads |-> Idle]
    /\ saving = Idle
    /\ rec = NewRecognizer(library)

\* the application with the speech_recognition library installed
InitAt(t, auto_save) == InitWith(t, auto_save, TRUE)

\* construction at clock value 0 with the default configuration
Init == InitAt(0, TRUE)

\* add_message and clear alone
NextSession ==
    \/ \E m \in MessageInputs : AddMessage(m)
    \/ Clear
    \/ Tick

SpecSession == Init /\ [][NextSession]_vars

\* a session that loads files it did not write
NextLoad ==
    \/ \E m \in MessageInputs : AddMessage(m)
    \/ Clear
    \/ Tick
    \/ \E path \in ExternalPaths : LoadSessionOp(path)

SpecLoad == Init /\ [][NextLoad]_vars

\* a session that saves to a file and loads it again
NextPersist ==
    \/ \E m \in MessageInputs : AddMessage(m)
    \/ Clear
    \/ Tick
    \/ \E io \in IoOutcomes : SaveSession(UserPath, io)
    \/ LoadSessionOp(UserPath)

SpecPersist == Init /\ [][NextPersist]_vars

\* a session that is saved and exported to the file the user chose
NextExport ==
    \/ \E m \in MessageInputs : AddMessage(m)
    \/ Clear
    \/ \E io \in IoOutcomes : SaveSession(UserPath, io)
    \/ \E f \in ExportFormats, io \in IoOutcomes : ExportSession(f, UserPath, io)

\* the session is saved and exported within one clock tick of its construction
InitExport == \E t \in 0..MaxTick : InitAt(t, TRUE)

SpecExport == InitExport /\ [][NextExport]_vars

\* a session left to its autosave: messages arrive, time passes, the timer
\* fires, the worker saves to the default path and starts the next timer
NextAutosave ==
    \/ \E m \in MessageInputs : AddMessage(m)
    \/ Tick
    \/ TimerFires
    \/ \E i \in 1..Len(auto.workers), io \in IoOutcomes : WorkerSave(i, io)
    \/ \E i \in 1..Len(auto.workers) : WorkerReschedule(i)

\* the timer thread and the worker are scheduled: a pending timer fires and a
\* worker goes on to its next statement
SpecAutosave ==
    /\ Init
    /\ [][NextAutosave]_vars
    /\ WF_vars(TimerFires)
    /\ WF_vars(\E i \in 1..Len(auto.workers), io \in IoOutcomes : WorkerSave(i, io))
    /\ WF_vars(\E i \in 1..Len(auto.workers) : WorkerReschedule(i))

\* the same session with stop_auto_save called at any moment, autosave
\* enabled or not
InitStop == \E auto_save \in BOOLEAN : InitAt(0, auto_save)

NextStop ==
    \/ NextAutosave
    \/ StopAutoSave

SpecStop == InitStop /\ [][NextStop]_vars

\* translator calls made one at a time
NextTranslator ==
    \/ \E text \in TranslatorTexts, target \in TargetLangs, source \in SourceLangs,
          outcome \in TranslateOutcomes : GoogleTranslate(text, target, source, outcome)
    \/ \E text \in TranslatorTexts, target \in TargetLangs, source \in SourceLangs,
          outcome \in TranslateOutcomes : CachedTranslate(text, target, source, outcome)
    \/ \E text \in TranslatorTexts, outcome \in DetectOutcomes : GoogleDetect(text, outcome)
    \/ \E text \in TranslatorTexts, outcome \in DetectOutcomes : CachedDetect(text, outcome)

SpecTranslator == Init /\ [][NextTranslator]_vars

\* the same calls, and requests for the cache statistics
NextCacheStats ==
    \/ NextTranslator
    \/ GetCacheStats

SpecCacheStats == Init /\ [][NextCacheStats]_vars

\* the autosave thread saves while the application adds messages
NextSnapshot ==
    \/ \E m \in MessageInputs : AddMessage(m)
    \/ Tick
    \/ SaveBuild
    \/ \E io \in IoOutcomes : SaveDump(io)

SpecSnapshot == Init /\ [][NextSnapshot]_vars

\* the recognizer, its caller and its workers
Workers == 1..MaxStarts

NextRecognizer ==
    \/ \E o \in StartOutcomes : StartListening(o)
    \/ StopListening
    \/ \E timed_out \in BOOLEAN : JoinReturns(timed_out)
    \/ \E i \in Workers : W_Top(i)
    \/ \E i \in Workers, o \in ListenOutcomes : W_Listen(i, o)
    \/ \E i \in Workers, o \in RecognizeOutcomes : W_Recognize(i, o)
    \/ Tick

InitRecognizer == \E library \in BOOLEAN : InitWith(0, TRUE, library)

SpecRecognizer == InitRecognizer /\ [][NextRecognizer]_vars

\* The worker threads are scheduled, and listen(timeout=1, phrase_time_limit=5)
\* returns or raises within its time limits; recognize_google(audio) is a
\* network request made with no timeout and need not return
SpecRecognizerFair ==
    /\ SpecRecognizer
    /\ \A i \in Workers : WF_vars(W_Top(i))
    /\ \A i \in Workers : WF_vars(\E o \in ListenOutcomes : W_Listen(i, o))

\* recognized speech and typed text are handled
NextHandlers ==
    \/ \E text \in TranslatorTexts, my_language \in MyLangs, auto_detect \in BOOLEAN,
          detected \in DetectOutcomes, target \in TargetLangs :
          OnVoiceRecognizedSame(text, my_language, auto_detect, detected, target)
    \/ \E text \in TranslatorTexts, my_language \in MyLangs, auto_detect \in BOOLEAN,
          detected \in DetectOutcomes, target \in TargetLangs, outcome \in TranslateOutcomes :
          OnVoiceRecognized(text, my_language, auto_detect, detected, target, outcome)
    \/ \E text \in TranslatorTexts, my_language \in MyLangs, target \in TargetLangs,
          outcome \in TranslateOutcomes :
          TranslateAndSpeakText(text, my_language, target, outcome)
    \/ \E t \in Threads : AddMessageAppend(t)
    \/ \E t \in Threads : AddMessageStats(t)

SpecHandlers == Init /\ [][NextHandlers]_vars

\* the application makes its translator and calls it
NextFactory ==
    \/ \E service \in Services, lib \in Libraries : CreateTranslatorOp(service, lib)
    \/ NextTranslator

SpecFactory == Init /\ [][NextFactory]_vars

\* translate_text called by two threads at once
NextConcurrent ==
    \E t \in Threads :
        \/ \E text \in TranslatorTexts, target \in TargetLangs, source \in SourceLangs :
              T_Call(t, text, target, source)
        \/ \E outcome \in TranslateOutcomes : T_Backend(t, outcome)
        \/ T_Check(t)
        \/ T_Store(t)

SpecConcurrent == Init /\ [][NextConcurrent]_vars

----------------------------------------------------------------------------
(* Properties of the session manager *)

\* the number of whitespace-separated words of a text, counted at the word ends
Words(text) ==
    Cardinality({ i \in 1..Len(text) : text[i] # " " /\ (i = Len(text) \/ text[i+1] = " ") })

RECURSIVE SumWords(_)
SumWords(msgs) ==
    IF msgs = <<>> THEN 0 ELSE Words(Head(msgs).text) + SumWords(Tail(msgs))

Count(msgs, P(_)) == Cardinality({ i \in 1..Len(msgs) : P(msgs[i]) })

\* C1: after every prefix of a sequence of add_message and clear calls the
\* incrementally maintained stats equal a recount over the message log: the
\* total, the per-language counts, the outgoing and incoming counts and the
\* word count.
C1_StatsMatchLog ==
    /\ stats.total_messages = Len(messages)
    /\ DOMAIN stats.languages = { messages[i].language : i \in 1..Len(messages) }
    /\ \A l \in DOMAIN stats.languages :
          stats.languages[l] = Count(messages, LAMBDA m : m.language = l)
    /\ stats.outgoing_messages = Count(messages, LAMBDA m : m.is_outgoing)
    /\ stats.incoming_messages = Count(messages, LAMBDA m : ~m.is_outgoing)
    /\ stats.outgoing_messages + stats.incoming_messages = stats.total_messages
    /\ stats.word_count = SumWords(messages)

\* a log of two messages in two languages and both directions, added after a clear
C1_Witness ==
    /\ ret.op = "add_message"
    /\ Len(messages) = MaxMsgs
    /\ Cardinality(DOMAIN stats.languages) = 2
    /\ stats.outgoing_messages > 0 /\ stats.incoming_messages > 0
    /\ stats.word_count > Len(messages)
    /\ start_time > 0

\* C2: whenever load_session returns False, session_id, start_time,
\* user_languages, stats and the message log are what they were before the call.
C2_LoadAtomic ==
    [][(ret'.op = "load_session" /\ ~ret'.result) => UNCHANGED sessionVars]_vars

\* C10: load_session of a path that save_session wrote succeeds and yields the
\* message log (same length, same order, every field equal) and the stats of
\* the moment of the save.
C10_SaveLoadRoundTrip ==
    (ret.op = "load_session" /\ saved[ret.path].taken) =>
        /\ ret.result
        /\ messages = saved[ret.path].messages
        /\ stats = saved[ret.path].stats

\* a saved log of two messages, one with a fraction of a second and one
\* without, one translated and one not, loaded back after the session went on
C10_Witness ==
    /\ ret.op = "load_session" /\ saved[ret.path].taken
    /\ Len(messages) = 2
    /\ \E i, j \in 1..Len(messages) :
          /\ messages[i].timestamp % TicksPerSec # 0
          /\ messages[j].timestamp % TicksPerSec = 0
    /\ \E i, j \in 1..Len(messages) :
          /\ messages[i].translation = None
          /\ messages[j].translation # None
    /\ now > messages[Len(messages)].timestamp

----------------------------------------------------------------------------
(* Properties of the translators *)

CacheLen == Cardinality(DOMAIN cache)

\* the triple the last call named, and the one the call of this step names
LastTriple == <<tret.text, tret.source, tret.target>>
NextTriple == <<tret'.text, tret'.source, tret'.target>>

\* this step is a call of CachedTranslator.translate_text with a non-empty text
CachedCallStep == tret'.op = "cached_translate" /\ Truthy(tret'.text)

\* C3: the number of cache entries never exceeds cache_size, also when
\* translate_text is called by several threads at once.
C3_CacheBounded == CacheLen <= CacheSize

\* C4: once the cache holds cache_size entries it never changes again, and a
\* call for a key that is not cached invokes the wrapped translator and leaves
\* the key absent.
C4_FillThenFreeze ==
    [][CacheLen >= CacheSize =>
        /\ cache' = cache
        /\ (CachedCallStep /\ NextTriple \notin DOMAIN cache) =>
              (base_calls' = base_calls + 1 /\ NextTriple \notin DOMAIN cache')]_vars

\* a full cache, and a call whose translation was not stored
C4_Witness ==
    /\ CacheLen = CacheSize
    /\ base_calls > CacheSize
    /\ tret.op = "cached_translate" /\ tret.base_invoked
    /\ Truthy(tret.result)
    /\ LastTriple \notin DOMAIN cache

\* C5: a call for a triple that is in the cache returns the cached value
\* without invoking the wrapped translator, and a call for a triple that is
\* not in the cache, whatever triples near it are, invokes it.
C5_HitSkipsBase ==
    [][CachedCallStep =>
        IF NextTriple \in DOMAIN cache
        THEN tret'.result = cache[NextTriple] /\ base_calls' = base_calls /\ cache' = cache
        ELSE base_calls' = base_calls + 1]_vars

\* the triples that differ from k in exactly one component
Neighbours(k) ==
    { j \in DOMAIN cache :
        Cardinality({ i \in 1..3 : j[i] # k[i] }) = 1 }

\* a hit, with the cache also holding a triple that differs in one component
C5_Witness ==
    /\ tret.op = "cached_translate" /\ ~tret.base_invoked
    /\ LastTriple \in DOMAIN cache
    /\ tret.result = cache[LastTriple]
    /\ \E j \in Neighbours(LastTriple) : cache[j] # cache[LastTriple]

\* C6: on a miss below capacity the wrapped translator is invoked once and the
\* result is stored under the triple if and only if it is not None.
C6_MissStoresNonNone ==
    [][(CachedCallStep /\ NextTriple \notin DOMAIN cache /\ CacheLen < CacheSize) =>
        /\ base_calls' = base_calls + 1
        /\ (tret'.result # None) <=> (NextTriple \in DOMAIN cache')
        /\ (NextTriple \in DOMAIN cache') => cache'[NextTriple] = tret'.result]_vars

\* C7: translate_text of a non-empty text from a language other than "auto" to
\* the same language returns the text and does not invoke the backend.
C7_SameLanguage ==
    (/\ tret.op \in {"google_translate", "cached_translate"}
     /\ Truthy(tret.text)
     /\ tret.source = tret.target /\ tret.source # "auto")
    => (tret.result = tret.text /\ ~tret.backend_invoked)

\* a same-language call, made when the backend would have answered otherwise
C7_Witness ==
    /\ tret.op = "google_translate"
    /\ Truthy(tret.text)
    /\ tret.source = tret.target /\ tret.source # "auto"
    /\ tret.outcome = Gives(Hola)
    /\ tret.result = tret.text

\* C8: when the text is empty or the backend raises, translate_text returns
\* None and the cache is left as it was.
C8_FailureGivesNone ==
    [][(/\ tret'.op \in {"google_translate", "cached_translate"}
        /\ \/ ~Truthy(tret'.text)
           \/ tret'.backend_invoked /\ tret'.outcome.raises)
       => (tret'.result = None /\ cache' = cache)]_vars

\* a cached call, with entries in the cache, whose backend raised
C8_Witness ==
    /\ tret.op = "cached_translate"
    /\ tret.backend_invoked /\ tret.outcome.raises
    /\ tret.result = None
    /\ CacheLen > 0 /\ CacheLen < CacheSize

\* C9: detect_language returns "en" when the text is empty or the detection
\* raises and the detected code otherwise, through the cached translator too.
C9_DetectDefaultsToEn ==
    tret.op \in {"google_detect", "cached_detect"} =>
        tret.result = (IF tret.text = <<>> \/ tret.outcome.raises
                       THEN "en" ELSE tret.outcome.lang)

\* a detection through the cached translator that raised
C9_Witness ==
    /\ tret.op = "cached_detect"
    /\ tret.text # <<>> /\ tret.outcome.raises
    /\ tret.result = "en"

\* C11: after load_session returns True the statistics are those of the loaded
\* messages: total_messages is their number and languages[l] the number of
\* them in language l, every language of a loaded message being counted.
C11_StatsAfterLoad ==
    (ret.op = "load_session" /\ ret.result) =>
        /\ stats.total_messages = Len(messages)
        /\ \A i \in 1..Len(messages) : messages[i].language \in DOMAIN stats.languages
        /\ \A l \in DOMAIN stats.languages :
              stats.languages[l] = Count(messages, LAMBDA m : m.language = l)

\* C12: from_dict(to_dict(m)) has the text, language, direction and translation
\* of m, and its timestamp to the second, whenever the reconstruction is made.
C12_MessageRoundTrip ==
    \A i \in 1..Len(messages), t \in 0..MaxTick :
        LET m == messages[i]
            r == FromDict(ToDict(m), t)
        IN /\ r.error = NoError
           /\ r.value.text = m.text
           /\ r.value.language = m.language
           /\ r.value.is_outgoing = m.is_outgoing
           /\ r.value.translation = m.translation
           /\ StrfTime(r.value.timestamp) = StrfTime(m.timestamp)

\* a log holding an untranslated message and a message made a fraction of a
\* second after the full second, both older than the clock
C12_Witness ==
    /\ Len(messages) = MaxMsgs
    /\ \E i \in 1..Len(messages) : messages[i].translation = None
    /\ \E i \in 1..Len(messages) : messages[i].translation # None
    /\ \E i \in 1..Len(messages) :
          messages[i].timestamp % TicksPerSec # 0 /\ messages[i].timestamp < now

\* the message entries of the record in file content c that are JSON objects
DictEntries(c) ==
    IF c.kind = "json" /\ IsDict(c.data)
    THEN LET entries == DictGet(c.data, "messages", <<>>)
         IN { entries[i] : i \in { j \in 1..Len(entries) : IsDict(entries[j]) } }
    ELSE {}

\* C13: from_dict returns a message for every entry of the file load_session
\* read: a missing language is "en", a missing is_outgoing False, a missing
\* translation absent, and a timestamp that is missing or does not parse is
\* replaced by the time of the reconstruction.
C13_FromDictTolerant ==
    ret.op = "load_session" =>
        \A e \in DictEntries(files[ret.path]) :
            LET r == FromDict(e, now)
            IN /\ r.error = NoError
               /\ r.value.language = DictGet(e, "language", "en")
               /\ r.value.is_outgoing = DictGet(e, "is_outgoing", FALSE)
               /\ r.value.translation = FromJsonOpt(DictGet(e, "translation", JNull))
               /\ ("timestamp" \notin DOMAIN e \/ FromIsoFormat(e["timestamp"]).error # NoError)
                     => r.value.timestamp = now

\* C15: a call of clear leaves the message log empty, every counter 0 and the
\* languages map empty, and writes or changes no file.
C15_ClearInMemory ==
    [][ret'.op = "clear" =>
          /\ messages' = <<>>
          /\ stats' = EmptyStats
          /\ files' = files]_vars

\* a clear in a later second than the save of a one-message log, whose file
\* is still what that save wrote
C15_Witness ==
    /\ ret.op = "clear"
    /\ messages = <<>>
    /\ saved[UserPath].taken
    /\ files[UserPath].kind = "json"
    /\ Len(files[UserPath].data.messages) = 1
    /\ session_id # files[UserPath].data.session_id

\* C16: the session_id that clear assigns is not the one the session had
\* until then.
C16_ClearGivesNewId ==
    [][ret'.op = "clear" => session_id' # session_id]_vars

\* C14: on a session without messages save_session and export_session, in
\* every format, return False, leave every file as it is and leave the
\* session's id, start time, statistics, languages and log as they are.
C14_EmptyNoOp ==
    [][(messages = <<>> /\ ret'.op \in {"save_session", "export_session"}) =>
          /\ ret'.result = FALSE
          /\ files' = files
          /\ UNCHANGED sessionVars]_vars

\* an export asked of a cleared session whose earlier export is on disk
C14_Witness ==
    /\ ret.op = "export_session"
    /\ ~ret.result
    /\ messages = <<>>
    /\ files[UserPath].kind \in {"text", "html", "csv", "json"}

\* C19: a call of save_session or export_session, returning True or False,
\* changes none of the log, the statistics, the session id, the start time
\* and the user languages.
C19_SaveExportReadOnly ==
    [][ret'.op \in {"save_session", "export_session"} => UNCHANGED sessionVars]_vars

\* an export of a two-message log whose writing failed part-way
C19_Witness ==
    /\ ret.op = "export_session"
    /\ ~ret.result
    /\ Len(messages) = MaxMsgs
    /\ messages[1] # messages[2]
    /\ files[UserPath] = Truncated

\* the step in which an autosave worker makes its call of save_session
AutosaveSaves ==
    /\ Len(auto.workers) = 1 /\ Len(auto'.workers) = 1
    /\ auto.workers[1].pc = "save" /\ auto'.workers[1].pc = "reschedule"

\* the step in which an autosave worker returns
AutosaveReturns == Len(auto'.workers) < Len(auto.workers)

\* C17: with autosave enabled and never stopped, there is at every moment
\* either one pending timer or one worker and never more; the worker calls
\* save_session once, with the default path, and when it returns one timer is
\* pending whether the save returned True or False; timers fire again and again.
C17_AutosaveReschedules ==
    /\ [](auto.pending <= 1 /\ auto.pending + Len(auto.workers) = 1)
    /\ [][AutosaveSaves =>
            /\ ret'.op = "save_session"
            /\ auto'.workers[1].result = ret'.result
            /\ ret'.result => files'[DefaultPath(session_id)] = JsonFile(SessionData(now))
            /\ ~ret'.result => \/ messages = <<>>
                                \/ files'[DefaultPath(session_id)] \in {InvalidJson, files[DefaultPath(session_id)]}]_vars
    /\ [][AutosaveReturns => (auto'.pending = 1 /\ auto'.timer = "pending" /\ auto'.workers = <<>>)]_vars
    /\ []<>(auto.workers # <<>> /\ auto.workers[1].pc = "save")
    /\ []<>(auto.pending = 1)

\* a timer pending again after a worker's save of a non-empty log failed
C17_Witness ==
    /\ auto.pending = 1 /\ auto.timer = "pending"
    /\ ret.op = "save_session" /\ ~ret.result
    /\ messages # <<>>
    /\ files[DefaultPath(session_id)] = InvalidJson

\* C18: once stop_auto_save has returned no autosave timer is pending.
C18_StopIsFinal ==
    auto.stopped => auto.pending = 0

\* C20: the cached translator reports its statistics: the size of the cache,
\* the hits and the misses counted so far, a miss for every call that went to
\* the wrapped translator, and hit_rate = hits / (hits + misses) * 100, which
\* is 0 before the first lookup.
C20_HitMissAccounting ==
    tret.op = "get_cache_stats" =>
        /\ tret.result.error = NoError
        /\ tret.result.size = CacheLen
        /\ tret.result.misses = base_calls
        /\ tret.result.hits >= 0
        /\ tret.result.hit_rate * (tret.result.hits + tret.result.misses) = tret.result.hits * 100
        /\ (tret.result.hits + tret.result.misses = 0) => tret.result.hit_rate = 0

\* C21: create_translator returns a translator when the service is google and
\* the library is usable, and raises ValueError when the service is not a
\* supported one or no backend can be constructed.
C21_FactoryResult ==
    made.called =>
        made.result = (IF made.service = "google" /\ made.lib = "usable"
                       THEN Translator_("GoogleTranslator")
                       ELSE Raised("ValueError"))

\* C22: a CSV export that succeeded left the header row Timestamp, Speaker,
\* Language, Text, Translation and after it one row of five fields for every
\* message, in the order of the log, the fifth field empty when the message
\* has no translation.
C22_CsvRows ==
    (ret.op = "export_session" /\ ret.format = "csv" /\ ret.result) =>
        LET rows == files[UserPath].rows
        IN /\ files[UserPath].kind = "csv"
           /\ Len(messages) >= 1
           /\ Len(rows) = Len(messages) + 1
           /\ rows[1] = <<"Timestamp", "Speaker", "Language", "Text", "Translation">>
           /\ \A i \in 1..Len(messages) :
                 /\ Len(rows[i + 1]) = 5
                 /\ rows[i + 1][1] = StrfTime(messages[i].timestamp)
                 /\ rows[i + 1][2] = (IF messages[i].is_outgoing THEN "You" ELSE "Teammate")
                 /\ rows[i + 1][3] = messages[i].language
                 /\ rows[i + 1][4] = messages[i].text
                 /\ rows[i + 1][5] = (IF messages[i].translation = None THEN <<>>
                                      ELSE messages[i].translation)

\* a CSV export of two different messages, one translated and one not
C22_Witness ==
    /\ ret.op = "export_session" /\ ret.format = "csv" /\ ret.result
    /\ Len(messages) = 2
    /\ messages[1].translation # None
    /\ messages[2].translation = None
    /\ messages[1].is_outgoing # messages[2].is_outgoing

\* thread t makes the append of add_message in this step
Appends(t) == hand[t].pc = "message" /\ hand'[t].pc = "stats"

\* C23: the log changes only by a handler appending its one message, whose
\* text is the utterance; when translate_text returned None for the utterance,
\* or was not called, the appended message has no translation.
C23_FailedTranslationAbsent ==
    [][messages' # messages =>
          \E t \in Threads :
              /\ Appends(t)
              /\ Len(messages') = Len(messages) + 1
              /\ \A i \in 1..Len(messages) : messages'[i] = messages[i]
              /\ messages'[Len(messages')].text = hand[t].text
              /\ messages'[Len(messages')].translation = hand[t].returned]_vars

\* the typed utterance whose translation failed in the backend is in the
\* log, untranslated, behind a translated one
C23_Witness ==
    /\ Len(messages) = 2
    /\ messages[1].translation # None
    /\ messages[2].translation = None
    /\ messages[2].text = tret.text
    /\ tret.op = "cached_translate" /\ tret.backend_invoked /\ tret.outcome.raises
    /\ hand["ui"].pc = "stats"

\* C24: the recognition worker thread is never inside add_message.
C24_UiThreadOwnsAddMessage ==
    hand["worker"].pc # "stats"

\* C25: in the record save_session wrote, stats.total_messages is the number
\* of entries of messages and languages[l] the number of them in language l.
C25_SavedSnapshotConsistent ==
    LET c == files[DefaultPath(session_id)]
    IN c.kind = "json" =>
          /\ c.data.stats.total_messages = Len(c.data.messages)
          /\ \A l \in DOMAIN c.data.stats.languages :
                c.data.stats.languages[l] = Count(c.data.messages, LAMBDA e : e.language = l)

\* C26: two threads are never both between a miss and the end of
\* translate_text for the same (text, source, target): the wrapped translator
\* is not asked twice for one uncached key.
C26_NoDoubleMiss ==
    \A t1, t2 \in Threads :
        (t1 # t2 /\ thr[t1].pc # "idle" /\ thr[t2].pc # "idle")
            => CacheKey(thr[t1].text, thr[t1].target, thr[t1].source)
                 # CacheKey(thr[t2].text, thr[t2].target, thr[t2].source)

\* C28: of the threads start_listening created, at most one passes recognized
\* text to the callback after the latest successful start_listening: an
\* earlier worker does not go on delivering next to the new one.
C28_OneWorkerDelivers == Cardinality(rec.delivered) <= 1

\* C29: after start_listening returned False because the microphone could not
\* be opened or the calibration failed, is_listening is False; after it
\* returned True, the flag and the callback are set.
C29_StartResultMatchesFlag ==
    rec.last.op = "start_listening" =>
        /\ (rec.last.value /\ rec.caller = "idle") => (rec.is_listening /\ rec.callback)
        /\ rec.last.cause \in {"mic_fails", "calibration_fails"} => ~rec.is_listening

\* C30: while is_listening is True after a start_listening that returned
\* True, a recognition worker is running.
C30_ListeningHasWorker ==
    (rec.is_listening /\ rec.last.op = "start_listening" /\ rec.last.value) => Live # {}

\* C27: once stop_listening has cleared the flag, every recognition worker
\* ends its loop, unless start_listening is called again.
C27_StopTerminatesWorkers == rec.stopped ~> (Live = {} \/ ~rec.stopped)

====
